---- MODULE Spec2Model ----
(***************************************************************************)
(* Model of src/src/rss.rs: the feed store (tables feeds and entries) and  *)
(* the two public operations subscribe_to_feed and refresh_feed, taken     *)
(* one storage statement or one fetch at a time.                           *)
(*                                                                         *)
(* A row id is the row's index in its table: both tables are declared      *)
(* INTEGER PRIMARY KEY AUTOINCREMENT and no statement of the module        *)
(* deletes a row, so the n-th inserted row has id n.                       *)
(*                                                                         *)
(* An rss::Item is modelled by its link() alone (Option<&str>): it is the  *)
(* only field any condition of the module reads; the other fields are      *)
(* copied into the row by add_item_to_feed and never examined.             *)
(***************************************************************************)
EXTENDS Integers, Sequences, FiniteSets, TLC

\* ---------------------------------------------------------------- bounds
NumLinks == 2       \* distinct link strings a remote feed can carry
MaxItems == 2       \* longest remote item list a fetch returns
MaxFeeds == 2       \* feeds rows created at most
MaxOps   == 3       \* operations started at most (also bounds the clock)
MaxItemsConc == 1   \* longest remote item list when callers run concurrently

\* None of an Option / NULL of a column
Null == 0

Links    == 1..NumLinks
OptLinks == Links \cup {Null}
Urls     == {"u1", "u2"}
Procs    == {1, 2}

\* every item list Channel::items() can hold, within MaxItems
ItemLists(n) == UNION {[1..k -> OptLinks] : k \in 0..n}

RemoteLists == ItemLists(MaxItems)

VARIABLES
    feeds,          \* table feeds: Seq of [feed_link, refreshed_at]
    entries,        \* table entries: Seq of [feed_id, link, read_on]
    now,            \* the clock Utc::now() reads
    serial,         \* TRUE: callers run one operation at a time, to completion
    pc,             \* per caller: position in its operation
    op,             \* per caller: "none", "subscribe" or "refresh"
    url,            \* per caller: url / feed_url
    feed_id,        \* per caller: feed_id
    remote_items,   \* per caller: feed.items() / remote_items
    local_entries_links, \* per caller: local_entries_links
    items_to_add,   \* per caller: items_to_add, as a sequence
    idx,            \* per caller: position of the for loop
    inserted_item_ids,   \* per caller: inserted_item_ids
    result,         \* per caller: what the operation returned
    pre_len,        \* per caller: number of entries rows when it started
    last            \* the operation before the running one, when run one at a time

vars == <<feeds, entries, now, serial, pc, op, url, feed_id, remote_items,
          local_entries_links, items_to_add, idx, inserted_item_ids, result,
          pre_len, last>>

\* ------------------------------------------------------- pure operators
RECURSIVE SelectLinked(_)
\* remote_items.iter().flat_map(|item| item.link()), as a sequence
SelectLinked(items) ==
    IF items = <<>> THEN <<>>
    ELSE IF Head(items) # Null
         THEN <<Head(items)>> \o SelectLinked(Tail(items))
         ELSE SelectLinked(Tail(items))

Range(s) == {s[i] : i \in 1..Len(s)}

\* ... .collect::<HashSet<&str>>()
remote_items_links(items) == Range(SelectLinked(items))

\* faulty variant: the local links are not subtracted
difference_keeps_all(remote_links, local_links) == remote_links

\* remote_items_links.difference(&local_entries_links)
difference(remote_links, local_links) == remote_links \ local_links

\* faulty variant: an item without a link counts as new
is_item_to_add_null_is_new(item, diff) ==
    IF item # Null THEN item \in diff ELSE TRUE

\* the filter closure of items_to_add
is_item_to_add(item, diff) ==
    IF item # Null THEN item \in diff ELSE FALSE

RECURSIVE filter_items(_, _)
\* remote_items.iter().filter(...)
filter_items(items, diff) ==
    IF items = <<>> THEN <<>>
    ELSE IF is_item_to_add(Head(items), diff)
         THEN <<Head(items)>> \o filter_items(Tail(items), diff)
         ELSE filter_items(Tail(items), diff)

\* faulty variant: the WHERE clause is missing, every feed's rows are read
link_rows_all_feeds(es, f) == 1..Len(es)

\* rows of SELECT link FROM entries WHERE feed_id=?1
link_rows(es, f) == {i \in 1..Len(es) : es[i].feed_id = f}

\* row.get(0) into a String fails on a NULL link and .unwrap() panics
get_entries_links_panics(es, f) == \E i \in link_rows(es, f) : es[i].link = Null

\* get_entries_links, when no row makes it panic
get_entries_links(es, f) == {es[i].link : i \in link_rows(es, f)}

\* INSERT INTO feeds (title, link, feed_link): refreshed_at stays NULL
create_feed(fs, feed_link) ==
    Append(fs, [feed_link |-> feed_link, refreshed_at |-> Null])

\* faulty variant: the insert is rejected when the feed already holds the link
add_item_to_feed_unique(es, f, item) ==
    IF \E i \in 1..Len(es) : es[i].feed_id = f /\ es[i].link = item /\ item # Null
    THEN es
    ELSE Append(es, [feed_id |-> f, link |-> item, read_on |-> Null])

\* INSERT INTO entries (...): read_on is not in the column list, stays NULL
add_item_to_feed(es, f, item) ==
    Append(es, [feed_id |-> f, link |-> item, read_on |-> Null])

\* UPDATE feeds SET refreshed_at = ?2 WHERE id = ?1
update_feed_refreshed_at(fs, f, t) ==
    [i \in 1..Len(fs) |-> IF i = f THEN [fs[i] EXCEPT !.refreshed_at = t]
                          ELSE fs[i]]

\* rows the UPDATE changes: conn.execute returns Ok(this number)
rows_updated(fs, f) == Cardinality({i \in 1..Len(fs) : i = f})

\* faulty variant: an UPDATE that changed no row is reported as NotFound
update_result_checks_rows(n) == IF n = 0 THEN "NotFound" ELSE "Ok"

\* conn.execute(..)?; Ok(()): the number of rows changed is dropped
update_result(n) == "Ok"

\* faulty variant: the table is dropped and created again
drop_and_create_table(table) == <<>>

\* CREATE TABLE IF NOT EXISTS on a table that exists: the statement does nothing
create_table_if_not_exists(table) == table

\* SELECT feed_link FROM feeds WHERE id=?1 returns a row
feed_exists(fs, f) == f \in 1..Len(fs)

\* faulty variant: the WHERE clause is missing, the first row is returned
get_feed_url_first_row(fs, f) == fs[1].feed_link

get_feed_url(fs, f) == fs[f].feed_link

\* -------------------------------------------------------------- helpers
Busy(p) == pc[p] \notin {"idle", "done"}

\* a caller may start when the discipline in force lets it: one at a time
\* (caller 1 alone), or concurrently, caller 2 being the one that arrives while
\* caller 1 is at work
MayStart(p) ==
    /\ ~Busy(p)
    /\ now < MaxOps
    /\ serial => (p = 1 /\ \A q \in Procs : ~Busy(q))
    /\ ~serial => (p = 1 \/ Busy(1))

\* the item lists a fetch may return under the discipline in force
Fetchable == IF serial THEN RemoteLists ELSE ItemLists(MaxItemsConc)

\* the operation a caller has just finished, kept while it runs the next one
\* (ok: it returned Ok; failed_insert: it was a Refresh whose insert loop
\* stopped at a failing insert, selected being its items_to_add and committed
\* the number of them inserted before the failure)
NoLast == [op |-> "none", feed_id |-> Null, remote_items |-> <<>>, ok |-> FALSE,
           failed_insert |-> FALSE, selected |-> <<>>, committed |-> 0]

Summary(p) ==
    IF pc[p] = "done" /\ result[p] = "Ok"
    THEN [op |-> op[p], feed_id |-> feed_id[p], remote_items |-> remote_items[p],
          ok |-> TRUE, failed_insert |-> FALSE, selected |-> <<>>, committed |-> 0]
    ELSE IF /\ pc[p] = "done" /\ op[p] = "refresh" /\ result[p] = "StorageError"
            /\ idx[p] <= Len(items_to_add[p])
         THEN [op |-> op[p], feed_id |-> feed_id[p],
               remote_items |-> remote_items[p], ok |-> FALSE,
               failed_insert |-> TRUE, selected |-> items_to_add[p],
               committed |-> idx[p] - 1]
         ELSE NoLast

Begin(p, o, u, f) ==
    /\ now' = now + 1
    /\ op' = [op EXCEPT ![p] = o]
    /\ url' = [url EXCEPT ![p] = u]
    /\ feed_id' = [feed_id EXCEPT ![p] = f]
    /\ remote_items' = [remote_items EXCEPT ![p] = <<>>]
    /\ local_entries_links' = [local_entries_links EXCEPT ![p] = {}]
    /\ items_to_add' = [items_to_add EXCEPT ![p] = <<>>]
    /\ idx' = [idx EXCEPT ![p] = 1]
    /\ inserted_item_ids' = [inserted_item_ids EXCEPT ![p] = <<>>]
    /\ pre_len' = [pre_len EXCEPT ![p] = Len(entries)]
    /\ last' = IF serial THEN Summary(p) ELSE NoLast

\* the operation ends with r (Ok, an Err, a panic, or the future dropped)
Return(p, r) ==
    /\ pc' = [pc EXCEPT ![p] = "done"]
    /\ result' = [result EXCEPT ![p] = r]

\* ------------------------------------------------------------ Subscribe
\* subscribe_to_feed is called; fetch_feed(url) is awaited
StartSubscribe(p, u) ==
    /\ MayStart(p)
    /\ Len(feeds) + Cardinality({q \in Procs : pc[q] \in {"sub_fetch", "sub_create"}})
         < MaxFeeds
    /\ Begin(p, "subscribe", u, Null)
    /\ pc' = [pc EXCEPT ![p] = "sub_fetch"]
    /\ result' = [result EXCEPT ![p] = "none"]
    /\ UNCHANGED <<feeds, entries, serial>>

\* fetch_feed returns Ok(channel)
SubFetchOk(p, items) ==
    /\ pc[p] = "sub_fetch"
    /\ items \in Fetchable
    /\ remote_items' = [remote_items EXCEPT ![p] = items]
    /\ pc' = [pc EXCEPT ![p] = "sub_create"]
    /\ UNCHANGED <<feeds, entries, now, serial, op, url, feed_id,
                   local_entries_links, items_to_add, idx, inserted_item_ids,
                   result, pre_len, last>>

\* fetch_feed returns Err (reqwest or Channel::from_str), or the future is
\* dropped while the fetch is pending
FetchFails(p, at, r) ==
    /\ pc[p] = at
    /\ Return(p, r)
    /\ UNCHANGED <<feeds, entries, now, serial, op, url, feed_id, remote_items,
                   local_entries_links, items_to_add, idx, inserted_item_ids,
                   pre_len, last>>

SubFetchErr(p) == \E r \in {"FetchError", "ParseError"} : FetchFails(p, "sub_fetch", r)

SubFetchCancel(p) == FetchFails(p, "sub_fetch", "Cancelled")

\* a statement fails: the ? returns the error, nothing is written
StatementFails(p, at) ==
    /\ pc[p] = at
    /\ Return(p, "StorageError")
    /\ UNCHANGED <<feeds, entries, now, serial, op, url, feed_id, remote_items,
                   local_entries_links, items_to_add, idx, inserted_item_ids,
                   pre_len, last>>

\* create_feed, then the for loop is entered (or skipped when there are no items)
SubCreateFeed(p) ==
    /\ pc[p] = "sub_create"
    /\ feeds' = create_feed(feeds, url[p])
    /\ feed_id' = [feed_id EXCEPT ![p] = Len(feeds')]
    /\ idx' = [idx EXCEPT ![p] = 1]
    /\ IF remote_items[p] = <<>>
       THEN Return(p, "Ok")
       ELSE /\ pc' = [pc EXCEPT ![p] = "sub_insert"]
            /\ UNCHANGED result
    /\ UNCHANGED <<entries, now, serial, op, url, remote_items,
                   local_entries_links, items_to_add, inserted_item_ids,
                   pre_len, last>>

SubCreateFeedErr(p) == StatementFails(p, "sub_create")

\* faulty variant: the loop skips an item without a link
SubInsertSkipsNull(p) ==
    /\ pc[p] = "sub_insert"
    /\ entries' = IF remote_items[p][idx[p]] = Null THEN entries
                  ELSE add_item_to_feed(entries, feed_id[p], remote_items[p][idx[p]])
    /\ idx' = [idx EXCEPT ![p] = idx[p] + 1]
    /\ IF idx[p] = Len(remote_items[p])
       THEN Return(p, "Ok")
       ELSE UNCHANGED <<pc, result>>
    /\ UNCHANGED <<feeds, now, serial, op, url, feed_id, remote_items,
                   local_entries_links, items_to_add, inserted_item_ids,
                   pre_len, last>>

\* one turn of the for loop: add_item_to_feed(conn, feed_id, item)?
SubInsert(p) ==
    /\ pc[p] = "sub_insert"
    /\ entries' = add_item_to_feed(entries, feed_id[p], remote_items[p][idx[p]])
    /\ idx' = [idx EXCEPT ![p] = idx[p] + 1]
    /\ IF idx[p] = Len(remote_items[p])
       THEN Return(p, "Ok")
       ELSE UNCHANGED <<pc, result>>
    /\ UNCHANGED <<feeds, now, serial, op, url, feed_id, remote_items,
                   local_entries_links, items_to_add, inserted_item_ids,
                   pre_len, last>>

\* faulty variant: a failed insert undoes the feed row and the rows inserted
SubInsertErrRollsBack(p) ==
    /\ pc[p] = "sub_insert"
    /\ Return(p, "StorageError")
    /\ feeds' = SubSeq(feeds, 1, Len(feeds) - 1)
    /\ entries' = SubSeq(entries, 1, pre_len[p])
    /\ UNCHANGED <<now, serial, op, url, feed_id, remote_items,
                   local_entries_links, items_to_add, idx, inserted_item_ids,
                   pre_len, last>>

SubInsertErr(p) == StatementFails(p, "sub_insert")

\* -------------------------------------------------------------- Refresh
\* faulty variant: refreshed_at is written before the fetch
StartRefreshTouches(p, f) ==
    /\ MayStart(p)
    /\ feed_exists(feeds, f)
    /\ Begin(p, "refresh", get_feed_url(feeds, f), f)
    /\ pc' = [pc EXCEPT ![p] = "ref_fetch"]
    /\ result' = [result EXCEPT ![p] = "none"]
    /\ feeds' = update_feed_refreshed_at(feeds, f, now')
    /\ UNCHANGED <<entries, serial>>

\* refresh_feed is called, get_feed_url finds the row; fetch_feed is awaited
StartRefresh(p, f) ==
    /\ MayStart(p)
    /\ feed_exists(feeds, f)
    /\ Begin(p, "refresh", get_feed_url(feeds, f), f)
    /\ pc' = [pc EXCEPT ![p] = "ref_fetch"]
    /\ result' = [result EXCEPT ![p] = "none"]
    /\ UNCHANGED <<feeds, entries, serial>>

\* faulty variant: a missing row is taken for a feed with nothing new
RefreshNotFoundReturnsOk(p, f) ==
    /\ MayStart(p)
    /\ ~feed_exists(feeds, f)
    /\ Begin(p, "refresh", "none", f)
    /\ Return(p, "Ok")
    /\ UNCHANGED <<feeds, entries, serial>>

\* refresh_feed is called, get_feed_url finds no row (QueryReturnedNoRows)
RefreshNotFound(p, f) ==
    /\ MayStart(p)
    /\ ~feed_exists(feeds, f)
    /\ Begin(p, "refresh", "none", f)
    /\ Return(p, "NotFound")
    /\ UNCHANGED <<feeds, entries, serial>>

\* refresh_feed is called, get_feed_url fails in the storage engine
RefreshGetUrlErr(p, f) ==
    /\ MayStart(p)
    /\ Begin(p, "refresh", "none", f)
    /\ Return(p, "StorageError")
    /\ UNCHANGED <<feeds, entries, serial>>

RefFetchOk(p, items) ==
    /\ pc[p] = "ref_fetch"
    /\ items \in Fetchable
    /\ remote_items' = [remote_items EXCEPT ![p] = items]
    /\ pc' = [pc EXCEPT ![p] = "ref_links"]
    /\ UNCHANGED <<feeds, entries, now, serial, op, url, feed_id,
                   local_entries_links, items_to_add, idx, inserted_item_ids,
                   result, pre_len, last>>

RefFetchErr(p) == \E r \in {"FetchError", "ParseError"} : FetchFails(p, "ref_fetch", r)

RefFetchCancel(p) == FetchFails(p, "ref_fetch", "Cancelled")

\* get_entries_links reads the feed's links; difference and items_to_add are
\* computed from them; the for loop is entered
RefGetEntriesLinks(p) ==
    /\ pc[p] = "ref_links"
    /\ ~get_entries_links_panics(entries, feed_id[p])
    /\ LET local == get_entries_links(entries, feed_id[p])
           diff  == difference(remote_items_links(remote_items[p]), local)
           toadd == filter_items(remote_items[p], diff)
       IN /\ local_entries_links' = [local_entries_links EXCEPT ![p] = local]
          /\ items_to_add' = [items_to_add EXCEPT ![p] = toadd]
          /\ pc' = [pc EXCEPT ![p] = IF toadd = <<>> THEN "ref_update" ELSE "ref_insert"]
    /\ idx' = [idx EXCEPT ![p] = 1]
    /\ UNCHANGED <<feeds, entries, now, serial, op, url, feed_id, remote_items,
                   inserted_item_ids, result, pre_len, last>>

\* get_entries_links meets a row whose link is NULL: .unwrap() panics
RefGetEntriesLinksPanic(p) ==
    /\ pc[p] = "ref_links"
    /\ get_entries_links_panics(entries, feed_id[p])
    /\ Return(p, "Panic")
    /\ UNCHANGED <<feeds, entries, now, serial, op, url, feed_id, remote_items,
                   local_entries_links, items_to_add, idx, inserted_item_ids,
                   pre_len, last>>

RefGetEntriesLinksErr(p) == StatementFails(p, "ref_links")

\* faulty variant: the row id pushed is the one read before the insert
RefInsertStaleId(p) ==
    /\ pc[p] = "ref_insert"
    /\ entries' = add_item_to_feed(entries, feed_id[p], items_to_add[p][idx[p]])
    /\ inserted_item_ids' =
         [inserted_item_ids EXCEPT ![p] = Append(inserted_item_ids[p], Len(entries))]
    /\ idx' = [idx EXCEPT ![p] = idx[p] + 1]
    /\ pc' = [pc EXCEPT ![p] = IF idx[p] = Len(items_to_add[p])
                               THEN "ref_update" ELSE "ref_insert"]
    /\ UNCHANGED <<feeds, now, serial, op, url, feed_id, remote_items,
                   local_entries_links, items_to_add, result, pre_len, last>>

\* one turn of the for loop: add_item_to_feed, push the new row id
RefInsert(p) ==
    /\ pc[p] = "ref_insert"
    /\ entries' = add_item_to_feed(entries, feed_id[p], items_to_add[p][idx[p]])
    /\ inserted_item_ids' =
         [inserted_item_ids EXCEPT ![p] = Append(inserted_item_ids[p], Len(entries'))]
    /\ idx' = [idx EXCEPT ![p] = idx[p] + 1]
    /\ pc' = [pc EXCEPT ![p] = IF idx[p] = Len(items_to_add[p])
                               THEN "ref_update" ELSE "ref_insert"]
    /\ UNCHANGED <<feeds, now, serial, op, url, feed_id, remote_items,
                   local_entries_links, items_to_add, result, pre_len, last>>

\* faulty variant: a failed insert undoes the rows this Refresh inserted
RefInsertErrRollsBack(p) ==
    /\ pc[p] = "ref_insert"
    /\ Return(p, "StorageError")
    /\ entries' = SubSeq(entries, 1, pre_len[p])
    /\ UNCHANGED <<feeds, now, serial, op, url, feed_id, remote_items,
                   local_entries_links, items_to_add, idx, inserted_item_ids,
                   pre_len, last>>

\* faulty variant: a failed insert still stamps the feed as refreshed
RefInsertErrTouches(p) ==
    /\ pc[p] = "ref_insert"
    /\ Return(p, "StorageError")
    /\ feeds' = update_feed_refreshed_at(feeds, feed_id[p], now)
    /\ UNCHANGED <<entries, now, serial, op, url, feed_id, remote_items,
                   local_entries_links, items_to_add, idx, inserted_item_ids,
                   pre_len, last>>

RefInsertErr(p) == StatementFails(p, "ref_insert")

\* update_feed_refreshed_at(&conn, feed_id)?; Ok(inserted_item_ids)
RefUpdateRefreshedAt(p) ==
    /\ pc[p] = "ref_update"
    /\ feeds' = update_feed_refreshed_at(feeds, feed_id[p], now)
    /\ Return(p, "Ok")
    /\ UNCHANGED <<entries, now, serial, op, url, feed_id, remote_items,
                   local_entries_links, items_to_add, idx, inserted_item_ids,
                   pre_len, last>>

RefUpdateRefreshedAtErr(p) == StatementFails(p, "ref_update")

\* -------------------------------------------------------- initialize_db
\* initialize_db is called again on the initialized store: both statements
InitializeDb(p) ==
    /\ MayStart(p)
    /\ Begin(p, "initialize_db", "none", Null)
    /\ feeds' = create_table_if_not_exists(feeds)
    /\ entries' = create_table_if_not_exists(entries)
    /\ Return(p, "Ok")
    /\ UNCHANGED serial

\* one of its two statements fails in the storage engine
InitializeDbErr(p) ==
    /\ MayStart(p)
    /\ Begin(p, "initialize_db", "none", Null)
    /\ Return(p, "StorageError")
    /\ UNCHANGED <<feeds, entries, serial>>

\* --------------------------------------------- update_feed_refreshed_at
\* update_feed_refreshed_at called on its own, with any feed id
CallUpdateFeedRefreshedAt(p, f) ==
    /\ MayStart(p)
    /\ Begin(p, "update_feed_refreshed_at", "none", f)
    /\ feeds' = update_feed_refreshed_at(feeds, f, now')
    /\ Return(p, update_result(rows_updated(feeds, f)))
    /\ UNCHANGED <<entries, serial>>

\* the UPDATE fails in the storage engine
CallUpdateFeedRefreshedAtErr(p, f) ==
    /\ MayStart(p)
    /\ Begin(p, "update_feed_refreshed_at", "none", f)
    /\ Return(p, "StorageError")
    /\ UNCHANGED <<feeds, entries, serial>>

\* ------------------------------------------------------------------ spec
InitStore ==
    /\ feeds = <<>>
    /\ entries = <<>>
    /\ now = 0
    /\ pc = [p \in Procs |-> "idle"]
    /\ op = [p \in Procs |-> "none"]
    /\ url = [p \in Procs |-> "none"]
    /\ feed_id = [p \in Procs |-> Null]
    /\ remote_items = [p \in Procs |-> <<>>]
    /\ local_entries_links = [p \in Procs |-> {}]
    /\ items_to_add = [p \in Procs |-> <<>>]
    /\ idx = [p \in Procs |-> 1]
    /\ inserted_item_ids = [p \in Procs |-> <<>>]
    /\ result = [p \in Procs |-> "none"]
    /\ pre_len = [p \in Procs |-> 0]
    /\ last = NoLast

\* operations run one at a time, each to completion
Init == InitStore /\ serial = TRUE

\* callers on separate connections, interleaved statement by statement
InitConc == InitStore /\ serial = FALSE

Next ==
    \E p \in Procs :
        \/ InitializeDb(p)
        \/ InitializeDbErr(p)
        \/ \E u \in Urls : StartSubscribe(p, u)
        \/ \E items \in RemoteLists : SubFetchOk(p, items)
        \/ SubFetchErr(p)
        \/ SubFetchCancel(p)
        \/ SubCreateFeed(p)
        \/ SubCreateFeedErr(p)
        \/ SubInsert(p)
        \/ SubInsertErr(p)
        \/ \E f \in 1..MaxFeeds : StartRefresh(p, f)
        \/ \E f \in 1..(MaxFeeds + 1) : RefreshNotFound(p, f)
        \/ \E f \in 1..(MaxFeeds + 1) : RefreshGetUrlErr(p, f)
        \/ \E items \in RemoteLists : RefFetchOk(p, items)
        \/ RefFetchErr(p)
        \/ RefFetchCancel(p)
        \/ RefGetEntriesLinks(p)
        \/ RefGetEntriesLinksPanic(p)
        \/ RefGetEntriesLinksErr(p)
        \/ RefInsert(p)
        \/ RefInsertErr(p)
        \/ RefUpdateRefreshedAt(p)
        \/ RefUpdateRefreshedAtErr(p)

Spec == Init /\ [][Next]_vars

SpecConc == InitConc /\ [][Next]_vars

\* the operations, and update_feed_refreshed_at called on its own
NextStorage ==
    \/ Next
    \/ \E p \in Procs : \E f \in 1..(MaxFeeds + 1) : CallUpdateFeedRefreshedAt(p, f)
    \/ \E p \in Procs : \E f \in 1..(MaxFeeds + 1) : CallUpdateFeedRefreshedAtErr(p, f)

SpecStorage == Init /\ [][NextStorage]_vars

\* ================================================================ claims
Idle == \A p \in Procs : ~Busy(p)

AllLinked(items) == \A i \in 1..Len(items) : items[i] # Null

NullCount(items) == Cardinality({i \in 1..Len(items) : items[i] = Null})

\* the links of the inserted rows, in the order of the returned ids
InsertedLinks(p) ==
    [k \in 1..Len(inserted_item_ids[p]) |-> entries[inserted_item_ids[p][k]].link]

\* a caller whose refresh has computed items_to_add
Reconciled(p) == op[p] = "refresh" /\ pc[p] \in {"ref_insert", "ref_update"}

RefreshOk(p) == op[p] = "refresh" /\ pc[p] = "done" /\ result[p] = "Ok"

SubscribeOk(p) == op[p] = "subscribe" /\ pc[p] = "done" /\ result[p] = "Ok"

\* the running refresh comes right after a successful operation on the same
\* feed, and its fetch returned the same items, all of them with a link
Repeats(p) ==
    /\ op[p] = "refresh"
    /\ pc[p] \in {"ref_links", "ref_insert", "ref_update", "done"}
    /\ last.ok
    /\ last.feed_id = feed_id[p]
    /\ last.remote_items = remote_items[p]
    /\ AllLinked(remote_items[p])

\* ---------------------------------------------------------------- C1
\* C1 (as claimed): whenever no operation is running, no two entries of the
\* same feed share the same non-null link.
C1_LinkUniqueness ==
    Idle => \A i, j \in 1..Len(entries) :
                (i # j /\ entries[i].feed_id = entries[j].feed_id
                       /\ entries[i].link # Null)
                => entries[i].link # entries[j].link

\* ---------------------------------------------------------------- C2
\* C2 (as claimed): the items Refresh selects are the items of the remote
\* list whose link is not stored, plus every item with no link, in order.
C2_SelectsNewAndNull ==
    \A p \in Procs : Reconciled(p) =>
        items_to_add[p] =
            SelectSeq(remote_items[p],
                      LAMBDA x : x = Null \/ x \notin local_entries_links[p])

\* C2 (amended): the items Refresh selects are exactly the items of the
\* remote list that carry a link and whose link is not stored for the feed,
\* in the remote list's order; an item with no link is never selected.
C2_SelectsNewLinked ==
    \A p \in Procs : Reconciled(p) =>
        items_to_add[p] =
            SelectSeq(remote_items[p],
                      LAMBDA x : x # Null /\ x \notin local_entries_links[p])

C2_Witness ==
    \E p \in Procs :
        /\ Reconciled(p)
        /\ \E i \in 1..Len(remote_items[p]) : remote_items[p][i] = Null
        /\ local_entries_links[p] # {}
        /\ Len(items_to_add[p]) = 1
        /\ Len(remote_items[p]) = 2

\* ---------------------------------------------------------------- C3
\* C3: a Refresh that comes right after a successful Subscribe or Refresh of
\* the same feed, and whose fetch returns the same items (all with a link),
\* selects nothing, inserts nothing and returns the empty list.
C3_RefreshIdempotent ==
    \A p \in Procs : Repeats(p) =>
        /\ Len(entries) = pre_len[p]
        /\ inserted_item_ids[p] = <<>>
        /\ pc[p] # "ref_insert"
        /\ items_to_add[p] = <<>>
        /\ result[p] # "Panic"

C3_Witness ==
    \E p \in Procs :
        /\ Repeats(p)
        /\ RefreshOk(p)
        /\ Len(remote_items[p]) = 2
        /\ remote_items[p][1] # remote_items[p][2]

\* ---------------------------------------------------------------- C4
\* C4 (as claimed): a successful Refresh whose remote list holds k items with
\* no link has inserted k entries with no link.
C4_NullItemsInserted ==
    \A p \in Procs : RefreshOk(p) =>
        NullCount(InsertedLinks(p)) = NullCount(remote_items[p])

\* C4 (amended): Refresh never inserts an entry for a remote item with no
\* link: every entry a Refresh creates carries a link, and a Refresh whose
\* remote list holds only link-less items inserts nothing (two such items,
\* refreshed twice, yield 0 new entries each time).
C4_NullItemsNeverInserted ==
    \A p \in Procs : op[p] = "refresh" =>
        /\ NullCount(InsertedLinks(p)) = 0
        /\ (\A i \in 1..Len(remote_items[p]) : remote_items[p][i] = Null)
              => (inserted_item_ids[p] = <<>> /\ Len(entries) = pre_len[p])

C4_Witness ==
    \E p \in Procs :
        /\ RefreshOk(p)
        /\ remote_items[p] = <<Null, Null>>
        /\ last.ok /\ last.op = "refresh" /\ last.feed_id = feed_id[p]
        /\ last.remote_items = <<Null, Null>>
        /\ inserted_item_ids[p] = <<>>

\* ---------------------------------------------------------------- C5
\* rows of feed f that carry link l
RowsWith(f, l) == {i \in 1..Len(entries) : entries[i].feed_id = f /\ entries[i].link = l}

\* caller p refreshes feed f, found link l new, and has inserted it
InsertedAsNew(p, f, l) ==
    /\ op[p] = "refresh" /\ feed_id[p] = f
    /\ pc[p] \in {"ref_insert", "ref_update", "done"}
    /\ l \notin local_entries_links[p]
    /\ \E k \in 1..Len(inserted_item_ids[p]) : items_to_add[p][k] = l

\* C5: nothing keeps two concurrent Refreshes of one feed apart: when both
\* found the same link new and both inserted it, the feed holds the link
\* twice; a state where they read the same snapshot and did so is reachable.
C5_RaceDuplicates ==
    \A p, q \in Procs : \A l \in Links : \A f \in 1..MaxFeeds :
        (p # q /\ InsertedAsNew(p, f, l) /\ InsertedAsNew(q, f, l))
        => Cardinality(RowsWith(f, l)) >= 2

C5_Witness ==
    \E l \in Links : \E f \in 1..MaxFeeds :
        /\ InsertedAsNew(1, f, l) /\ InsertedAsNew(2, f, l)
        /\ local_entries_links[1] = local_entries_links[2]
        /\ Cardinality(RowsWith(f, l)) = 2
        /\ result[1] = "Ok" /\ result[2] = "Ok"

\* ---------------------------------------------------------------- C6
\* C6: no step taken before the caller's fetch has completed writes to the
\* store, and an operation that ends at its fetch ends with the fetch's
\* error (or cancelled): the store is as it was when the operation began.
C6_FetchPrecedesMutation ==
    [][ (\A p \in Procs : pc[p] \in {"idle", "done", "sub_fetch", "ref_fetch"})
        => /\ feeds' = feeds
           /\ entries' = entries
           /\ \A p \in Procs :
                (pc[p] \in {"sub_fetch", "ref_fetch"} /\ pc'[p] = "done")
                => result'[p] \in {"FetchError", "ParseError", "Cancelled"} ]_vars

C6_Witness ==
    \E p \in Procs :
        /\ op[p] = "refresh" /\ pc[p] = "done"
        /\ result[p] \in {"FetchError", "ParseError", "Cancelled"}
        /\ Len(entries) > 0
        /\ feeds[feed_id[p]].refreshed_at # Null

\* ---------------------------------------------------------------- C7
\* C7: a Refresh of a feed id that has no record ends in the step that
\* starts it, with NotFound (StorageError when the query itself fails),
\* before any fetch, and leaves feeds and entries as they were.
C7_UnknownFeedNotFound ==
    [][ \A p \in Procs :
          (MayStart(p) /\ now' = now + 1 /\ op'[p] = "refresh"
             /\ feed_id'[p] \notin 1..Len(feeds))
          => /\ pc'[p] = "done"
             /\ result'[p] \in {"NotFound", "StorageError"}
             /\ remote_items'[p] = <<>>
             /\ feeds' = feeds
             /\ entries' = entries ]_vars

C7_Witness ==
    \E p \in Procs :
        /\ op[p] = "refresh" /\ pc[p] = "done" /\ result[p] = "NotFound"
        /\ ~feed_exists(feeds, feed_id[p])
        /\ Len(feeds) > 0 /\ Len(entries) > 0

\* ---------------------------------------------------------------- C8
\* C8: a step of a Refresh changes the feeds table only as its last step,
\* after every selected item has been inserted, and then returns Ok; a
\* Refresh that returns Ok has set its feed's refreshed_at to the clock in
\* that step; a Refresh that ends otherwise leaves the feeds table alone.
C8_RefreshedAtLast ==
    [][ \A p \in Procs : (op[p] = "refresh" /\ Busy(p)) =>
          /\ (feeds' # feeds =>
                /\ pc[p] = "ref_update"
                /\ Len(inserted_item_ids[p]) = Len(items_to_add[p])
                /\ pc'[p] = "done" /\ result'[p] = "Ok")
          /\ ((pc'[p] = "done" /\ result'[p] = "Ok") =>
                /\ Len(feeds') = Len(feeds)
                /\ feeds'[feed_id[p]].refreshed_at = now
                /\ feeds[feed_id[p]].refreshed_at # now
                /\ entries' = entries)
          /\ ((pc'[p] = "done" /\ result'[p] # "Ok") => feeds' = feeds) ]_vars

C8_Witness ==
    \E p \in Procs :
        /\ op[p] = "refresh" /\ pc[p] = "done" /\ result[p] = "StorageError"
        /\ Len(inserted_item_ids[p]) = 1 /\ Len(items_to_add[p]) = 2
        /\ feeds[feed_id[p]].refreshed_at = Null

\* ---------------------------------------------------------------- C9
\* C9: a successful Refresh returns the ids of the rows it created, one per
\* selected item and in the items' order: the ids are the rows appended
\* since the call began, each a row of the refreshed feed carrying the link
\* of the corresponding selected item; nothing new gives the empty sequence.
C9_ReturnsCreatedIds ==
    \A p \in Procs : RefreshOk(p) =>
        /\ Len(inserted_item_ids[p]) = Len(entries) - pre_len[p]
        /\ Len(inserted_item_ids[p]) = Len(items_to_add[p])
        /\ \A k \in 1..Len(inserted_item_ids[p]) :
              /\ inserted_item_ids[p][k] = pre_len[p] + k
              /\ entries[inserted_item_ids[p][k]].feed_id = feed_id[p]
              /\ entries[inserted_item_ids[p][k]].link = items_to_add[p][k]
        /\ items_to_add[p] =
             SelectSeq(remote_items[p], LAMBDA x : x \in Range(items_to_add[p]))

C9_Witness ==
    \E p \in Procs :
        /\ RefreshOk(p)
        /\ pre_len[p] > 0
        /\ Len(inserted_item_ids[p]) = 2
        /\ items_to_add[p][1] # items_to_add[p][2]

\* ---------------------------------------------------------------- C10
\* C10: a successful Subscribe whose fetch returned N items has created the
\* newest feed record, with the url it was given, and appended exactly N
\* entries owned by that feed, the k-th carrying the k-th item, whatever
\* links were stored before.
C10_SubscribeInsertsAll ==
    \A p \in Procs : SubscribeOk(p) =>
        /\ feed_id[p] = Len(feeds)
        /\ feeds[feed_id[p]] = [feed_link |-> url[p], refreshed_at |-> Null]
        /\ Len(entries) = pre_len[p] + Len(remote_items[p])
        /\ \A k \in 1..Len(remote_items[p]) :
              entries[pre_len[p] + k] =
                  [feed_id |-> feed_id[p], link |-> remote_items[p][k], read_on |-> Null]
        /\ \A i \in 1..pre_len[p] : entries[i].feed_id # feed_id[p]

C10_Witness ==
    \E p \in Procs :
        /\ SubscribeOk(p)
        /\ Len(remote_items[p]) = 2
        /\ pre_len[p] > 0
        /\ \E i \in 1..pre_len[p] : entries[i].link = remote_items[p][1]
        /\ remote_items[p][2] = Null

\* ---------------------------------------------------------------- C11
\* a Subscribe that ended with a storage error after its feed row was created
SubscribeFailedAtInsert(p) ==
    /\ op[p] = "subscribe" /\ pc[p] = "done" /\ result[p] = "StorageError"
    /\ feed_id[p] # Null

\* C11: when the insert of the k-th item of a Subscribe fails, the Subscribe
\* returns the error, and the store keeps the feed row it created and
\* exactly the k-1 entries inserted before the failure, no later one.
C11_SubscribeFailsFast ==
    \A p \in Procs : SubscribeFailedAtInsert(p) =>
        /\ idx[p] \in 1..Len(remote_items[p])
        /\ feed_id[p] = Len(feeds)
        /\ feeds[feed_id[p]] = [feed_link |-> url[p], refreshed_at |-> Null]
        /\ Len(entries) = pre_len[p] + idx[p] - 1
        /\ \A j \in 1..(idx[p] - 1) :
              entries[pre_len[p] + j] =
                  [feed_id |-> feed_id[p], link |-> remote_items[p][j], read_on |-> Null]

C11_Witness ==
    \E p \in Procs :
        /\ SubscribeFailedAtInsert(p)
        /\ idx[p] = 2 /\ Len(remote_items[p]) = 2
        /\ pre_len[p] > 0

\* ---------------------------------------------------------------- C12
\* C12: every step of Subscribe, Refresh and initialize_db keeps every stored
\* entry at its id with all its fields (feed id, link, read_on): the entries
\* table only grows at its end.
C12_EntriesAppendOnly ==
    [][ /\ Len(entries') >= Len(entries)
        /\ \A i \in 1..Len(entries) : entries'[i] = entries[i] ]_vars

C12_Witness ==
    \E p \in Procs :
        /\ op[p] = "refresh" /\ pc[p] = "done" /\ result[p] = "Ok"
        /\ pre_len[p] > 0
        /\ Len(entries) > pre_len[p]
        /\ \E i \in 1..pre_len[p] : entries[i].feed_id = feed_id[p]

\* ---------------------------------------------------------------- C13
\* C13: no step removes a feed row or changes the feed_link of one: the only
\* field of an existing feed row a step changes is refreshed_at; and a
\* Refresh that goes on to fetch fetches the feed_link stored for its feed,
\* the url given to the Subscribe that created the row.
C13_FeedLinkImmutable ==
    [][ /\ Len(feeds') >= Len(feeds)
        /\ \A i \in 1..Len(feeds) : feeds'[i].feed_link = feeds[i].feed_link
        /\ \A p \in Procs :
              (SubscribeOk(p)' /\ pc[p] # "done")
              => feeds'[feed_id'[p]].feed_link = url'[p]
        /\ \A p \in Procs :
              (op'[p] = "refresh" /\ pc'[p] = "ref_fetch")
              => url'[p] = feeds'[feed_id'[p]].feed_link ]_vars

C13_Witness ==
    \E p \in Procs :
        /\ RefreshOk(p)
        /\ feed_id[p] = 2
        /\ feeds[1].feed_link # feeds[2].feed_link
        /\ feeds[2].refreshed_at # Null
        /\ url[p] = feeds[2].feed_link

\* ---------------------------------------------------------------- C14
\* C14: initialize_db called on the initialized store, whatever feeds and
\* entries it holds, leaves both tables as they are, and returns Ok unless
\* the storage engine fails the statement.
C14_InitializeDbIdempotent ==
    [][ \A p \in Procs :
          (MayStart(p) /\ now' = now + 1 /\ op'[p] = "initialize_db")
          => /\ feeds' = feeds
             /\ entries' = entries
             /\ pc'[p] = "done"
             /\ result'[p] \in {"Ok", "StorageError"} ]_vars

C14_Witness ==
    \E p \in Procs :
        /\ op[p] = "initialize_db" /\ pc[p] = "done" /\ result[p] = "Ok"
        /\ Len(feeds) > 0 /\ Len(entries) > 0
        /\ last.ok /\ last.op = "initialize_db"

\* ---------------------------------------------------------------- C15
Count(items, l) == Cardinality({i \in 1..Len(items) : items[i] = l})

\* C15 (as claimed): a successful Refresh whose remote list holds a link
\* twice, the link not being stored, has inserted one entry for that link.
C15_DuplicatesCollapse ==
    \A p \in Procs : RefreshOk(p) =>
        \A l \in Links :
            (Count(remote_items[p], l) >= 2 /\ l \notin local_entries_links[p])
            => Count(InsertedLinks(p), l) = 1

\* ---------------------------------------------------------------- C16
\* the distinct non-null links of the rows feed f held among the first n rows
StoredLinks(f, n) ==
    {entries[i].link : i \in {j \in 1..n : entries[j].feed_id = f}} \ {Null}

\* C16 (as claimed): reading the links of a feed never fails on a row that
\* has no link: the Refresh does not panic, and the set it goes on with is
\* the set of distinct non-null links stored for the feed.
C16_ListEntryLinksTotal ==
    \A p \in Procs :
        /\ result[p] # "Panic"
        /\ Reconciled(p) => local_entries_links[p] = StoredLinks(feed_id[p], pre_len[p])

\* ---------------------------------------------------------------- C17
\* the step is a call of update_feed_refreshed_at on its own by caller p
CallsUpdate(p) ==
    MayStart(p) /\ now' = now + 1 /\ op'[p] = "update_feed_refreshed_at"

\* C17 (as claimed): update_feed_refreshed_at on a feed id with no record
\* fails (NotFound, or the engine's error) and changes nothing.
C17_UpdateMissingFails ==
    [][ \A p \in Procs :
          (CallsUpdate(p) /\ ~feed_exists(feeds, feed_id'[p]))
          => /\ result'[p] \in {"NotFound", "StorageError"}
             /\ feeds' = feeds
             /\ entries' = entries ]_vars

\* C17 (amended): update_feed_refreshed_at on a feed id with no record
\* changes nothing and returns Ok (the UPDATE matches no row; only a failing
\* statement gives an error, never NotFound); on an existing feed it sets
\* that feed's refreshed_at to the clock and leaves its feed_link, every
\* other feed and all entries unchanged.
C17_UpdateRefreshedAt ==
    [][ \A p \in Procs : CallsUpdate(p) =>
          /\ pc'[p] = "done"
          /\ result'[p] \in {"Ok", "StorageError"}
          /\ entries' = entries
          /\ Len(feeds') = Len(feeds)
          /\ (~feed_exists(feeds, feed_id'[p]) \/ result'[p] = "StorageError")
                => feeds' = feeds
          /\ (feed_exists(feeds, feed_id'[p]) /\ result'[p] = "Ok")
                => /\ feeds'[feed_id'[p]].refreshed_at = now'
                   /\ feeds'[feed_id'[p]].feed_link = feeds[feed_id'[p]].feed_link
                   /\ \A g \in 1..Len(feeds) : g # feed_id'[p] => feeds'[g] = feeds[g] ]_vars

C17_Witness ==
    \E p \in Procs :
        /\ op[p] = "update_feed_refreshed_at" /\ pc[p] = "done" /\ result[p] = "Ok"
        /\ ~feed_exists(feeds, feed_id[p])
        /\ Len(feeds) > 0 /\ Len(entries) > 0

\* ---------------------------------------------------------------- C18
\* the items all carry a link and no two the same one
DistinctLinked(items) ==
    /\ AllLinked(items)
    /\ \A i, j \in 1..Len(items) : i # j => items[i] # items[j]

\* a Refresh that ran to completion right after a Refresh of the same feed
\* stopped at a failing insert, both fetching the same distinct links
RetriedOk(p) ==
    /\ RefreshOk(p)
    /\ last.failed_insert
    /\ last.feed_id = feed_id[p]
    /\ last.remote_items = remote_items[p]
    /\ DistinctLinked(remote_items[p])

\* C18 (as claimed): the retry has inserted exactly the selected items the
\* failed attempt had not committed, and the feed now stores each link of
\* the remote list exactly once.
C18_RetryConverges ==
    \A p \in Procs : RetriedOk(p) =>
        /\ InsertedLinks(p) =
             SubSeq(last.selected, last.committed + 1, Len(last.selected))
        /\ \A l \in Range(remote_items[p]) :
              Cardinality(RowsWith(feed_id[p], l)) = 1

\* ---------------------------------------------------------------- C19
\* the links stored under feed f, rows without a link included
LinksOfFeed(f) ==
    {entries[i].link : i \in {j \in 1..Len(entries) : entries[j].feed_id = f}}

\* C19: a step of Refresh(f) appends only rows owned by f, keeps every
\* stored entry and every other feed's row (its refreshed_at too) as they
\* are, and the links it compares the remote items with are those stored
\* under f alone: an item whose link is stored only under another feed is
\* selected as new.
C19_ScopedPerFeed ==
    [][ \A p \in Procs : (op[p] = "refresh" /\ Busy(p)) =>
          /\ \A i \in 1..Len(entries) : entries'[i] = entries[i]
          /\ \A i \in (Len(entries) + 1)..Len(entries') :
                entries'[i].feed_id = feed_id[p]
          /\ Len(feeds') = Len(feeds)
          /\ \A g \in 1..Len(feeds) : g # feed_id[p] => feeds'[g] = feeds[g]
          /\ (pc[p] = "ref_links" /\ Reconciled(p)') =>
                /\ local_entries_links'[p] = LinksOfFeed(feed_id[p])
                /\ items_to_add'[p] =
                     SelectSeq(remote_items[p],
                               LAMBDA x : x # Null /\ x \notin LinksOfFeed(feed_id[p])) ]_vars

C19_Witness ==
    \E p \in Procs : \E g \in 1..Len(feeds) :
        /\ RefreshOk(p)
        /\ g # feed_id[p]
        /\ feeds[g].refreshed_at = Null
        /\ \E k \in 1..Len(inserted_item_ids[p]) :
              /\ \E i \in 1..pre_len[p] :
                    entries[i].feed_id = g /\ entries[i].link = InsertedLinks(p)[k]
              /\ \A i \in 1..pre_len[p] :
                    entries[i].feed_id = feed_id[p] => entries[i].link # InsertedLinks(p)[k]

====
